---- MODULE Spec2Model ----
(***************************************************************************)
(* A model of tap-instagram: the request-parameter builders, the           *)
(* time-window planner of the user-insights streams, the page loop driven  *)
(* by get_next_page_token, the insight normalizers (parse_response), the   *)
(* walk over the graph of parent and child streams, and repeated runs of   *)
(* an incremental stream from its stored bookmark.                         *)
(*                                                                         *)
(* Times are whole seconds counted from an arbitrary epoch.  A Python      *)
(* Optional is a sequence of length 0 (None) or 1 (a value).               *)
(***************************************************************************)
EXTENDS Integers, Sequences, FiniteSets, TLC

VARIABLES
    pc,                 \* position of the modelled run
    stream,             \* name of the stream being synced
    starting_timestamp, \* get_starting_timestamp(context): Optional time
    signpost,           \* get_replication_key_signpost(context)
    min_since,          \* argument min_since of the window planner
    max_until,          \* argument max_until of the window planner
    max_time_window,    \* argument max_time_window (a timedelta)
    lookback_days,      \* config["media_insights_lookback_days"]
    window,             \* Optional pair returned by the window planner
    params,             \* URL parameters of the latest request
    requests,           \* number of HTTP requests issued
    warnings,           \* number of logger.warning calls
    contexts,           \* Contexts of the stream still to be synced
    current_context,    \* the Context being synced
    page_token,         \* Optional token for the next request
    sent,               \* tokens of the requests sent for this Context
    received,           \* tokens found in the responses of this Context
    response,           \* the latest response
    rows,               \* rows yielded from the latest response
    failure,            \* the exception that ended the run, or "none"
    completed,          \* number of Contexts whose pages were exhausted
    ig_user_ids,        \* config["ig_user_ids"]
    upstream,           \* what the API holds for each account
    agenda,             \* the syncs and rows the run has still to process
    log,                \* rows yielded and Context syncs begun, in order
    upstream_rows,      \* replication values of the rows of one partition
    pending,            \* rows of the requested range not yet delivered
    emitted,            \* rows emitted by the current run
    bookmark_at_start,  \* the bookmark the current run started from
    runs                \* number of runs completed

config == <<starting_timestamp, signpost, min_since, max_until, max_time_window,
            lookback_days>>
pagevars == <<contexts, current_context, page_token, sent, received, completed>>
graphvars == <<ig_user_ids, upstream, agenda, log>>
runvars == <<upstream_rows, pending, emitted, bookmark_at_start, runs>>
vars == <<pc, stream, config, window, params, requests, warnings, pagevars,
          response, rows, failure, graphvars, runvars>>

----------------------------------------------------------------------------
(* Optional values *)
None == <<>>
Some(x) == <<x>>

Min(a, b) == IF a <= b THEN a ELSE b
Max(a, b) == IF a >= b THEN a ELSE b

----------------------------------------------------------------------------
(* Time and timedelta *)
SecondsPerDay == 24 * 60 * 60
HourSeconds == 60 * 60

\* largest day number of the enumerated timestamps
MaxDay == 2

\* default of UserInsightsStream.max_time_window, in days
DefaultWindowDays == 30

\* default of media_insights_lookback_days
DefaultLookbackDays == 60

\* a timedelta is normalised by Python into days and 0 <= seconds < 86400
Duration(d, s) == [days |-> d, seconds |-> s]
total_seconds(w) == w.days * SecondsPerDay + w.seconds

Times == {d * SecondsPerDay + s : d \in 0..MaxDay, s \in {0, HourSeconds}}
Windows == {Duration(d, s) : d \in {0, 1, DefaultWindowDays}, s \in {0, HourSeconds}}
Lookbacks == {0, 1, DefaultLookbackDays}

----------------------------------------------------------------------------
(* Values of URL parameters.  Each value carries its Python type, so that  *)
(* a list produced by parse_qs is not the string a stream assigns.         *)
Str(x) == <<"str", x>>
Joined(names) == <<"join", names>>       \* ",".join(names)
DateTime(t) == <<"datetime", t>>
PyNone == <<"None">>
QsList(vals) == <<"list", vals>>         \* a list of strings from parse_qs

\* d with key k set to v (dict item assignment)
SetItem(d, k, v) == [x \in DOMAIN d \cup {k} |-> IF x = k THEN v ELSE d[x]]
EmptyDict == [x \in {} |-> PyNone]

----------------------------------------------------------------------------
(* Stream definitions *)
UserInsightsStreams == {"user_insights_online_followers", "user_insights_audience",
                        "user_insights_followers", "user_insights_daily",
                        "user_insights_weekly", "user_insights_28day"}
MediaStreams == {"media", "media_children"}
InsightsStreams == {"media_insights", "story_insights"}
Streams == {"users", "stories"} \cup MediaStreams \cup InsightsStreams
               \cup UserInsightsStreams

replication_key(s) ==
    IF s \in MediaStreams THEN Some("timestamp")
    ELSE IF s \in UserInsightsStreams THEN Some("end_time")
    ELSE None

has_pagination(s) == s # "user_insights_audience"

time_period(s) ==
    CASE s \in {"user_insights_online_followers", "user_insights_audience"} -> "lifetime"
      [] s \in {"user_insights_followers", "user_insights_daily"} -> "day"
      [] s = "user_insights_weekly" -> "week"
      [] s = "user_insights_28day" -> "days_28"

metrics(s) ==
    CASE s = "user_insights_online_followers" -> <<"online_followers">>
      [] s = "user_insights_audience" ->
            <<"audience_city", "audience_country", "audience_gender_age", "audience_locale">>
      [] s = "user_insights_followers" -> <<"follower_count">>
      [] s = "user_insights_daily" ->
            <<"email_contacts", "get_directions_clicks", "impressions", "phone_call_clicks",
              "profile_views", "reach", "text_message_clicks", "website_clicks">>
      [] s \in {"user_insights_weekly", "user_insights_28day"} -> <<"impressions", "reach">>

fields(s) ==
    CASE s = "users" ->
            <<"id", "ig_id", "name", "username", "biography", "followers_count", "media_count">>
      [] s = "media_children" ->
            <<"id", "ig_id", "media_type", "media_url", "owner", "permalink", "shortcode",
              "thumbnail_url", "timestamp", "username">>
      [] s = "media" ->
            <<"id", "ig_id", "caption", "comments_count", "is_comment_enabled", "like_count",
              "media_product_type", "media_type", "media_url", "owner", "permalink",
              "shortcode", "thumbnail_url", "timestamp", "username", "video_title">>
      [] s = "stories" ->
            <<"id", "ig_id", "caption", "comments_count", "like_count",
              "media_product_type", "media_type", "media_url", "owner", "permalink",
              "shortcode", "thumbnail_url", "timestamp", "username", "video_title">>

----------------------------------------------------------------------------
(* The time-window planner of the user-insights streams.                   *)
(* ts is get_starting_timestamp(context), sp the signpost.  max(None, x)   *)
(* raises TypeError, which the except branch turns into the fallback.      *)
(* timedelta.seconds is the seconds field of the normalised timedelta, not *)
(* its total length.                                                       *)
_fetch_time_based_pagination_range(ts, sp, mn, mx, w) ==
    IF ts = None
    THEN LET since == mn
             window_end == since + w.seconds
         IN  [since |-> since, until |-> Min(window_end, mx)]
    ELSE LET since == Min(Max(ts[1], mn), mx)
             window_end == Min(sp, since + w.seconds)
         IN  [since |-> since, until |-> Min(window_end, mx)]

----------------------------------------------------------------------------
(* Results of operations that may raise *)
Return(v) == [error |-> "none", value |-> v]
Raise(e) == [error |-> e]

(* The metric set of an insights request *)
\* _metrics_for_media_type that appends video_views whatever the media type
_metrics_for_media_type_all_views(media_type, media_product_type) ==
    IF media_type \in {"IMAGE", "VIDEO"}
    THEN IF media_product_type = "STORY"
         THEN Return(<<"exits", "impressions", "reach", "replies", "taps_forward", "taps_back">>)
         ELSE Return(<<"engagement", "impressions", "reach", "saved", "video_views">>)
    ELSE IF media_type = "CAROUSEL_ALBUM"
    THEN Return(<<"carousel_album_engagement", "carousel_album_impressions",
                  "carousel_album_reach", "carousel_album_saved",
                  "carousel_album_video_views">>)
    ELSE Raise("ValueError")

_metrics_for_media_type(media_type, media_product_type) ==
    IF media_type \in {"IMAGE", "VIDEO"}
    THEN IF media_product_type = "STORY"
         THEN Return(<<"exits", "impressions", "reach", "replies", "taps_forward", "taps_back">>)
         ELSE LET m == <<"engagement", "impressions", "reach", "saved">>
              IN  Return(IF media_type = "VIDEO" THEN Append(m, "video_views") ELSE m)
    ELSE IF media_type = "CAROUSEL_ALBUM"
    THEN Return(<<"carousel_album_engagement", "carousel_album_impressions",
                  "carousel_album_reach", "carousel_album_saved",
                  "carousel_album_video_views">>)
    ELSE Raise("ValueError")

----------------------------------------------------------------------------
(* A page token is the URL found at $.paging.next; the model keeps its     *)
(* query string, a sequence of <<key, value>> pairs of strings.            *)

\* urllib.parse.parse_qs: a dict from each key to the list of its values in
\* order of appearance; pairs with a blank value are dropped.
RECURSIVE ValuesOf(_, _)
ValuesOf(q, k) ==
    IF q = <<>> THEN <<>>
    ELSE IF Head(q)[1] = k /\ Head(q)[2] # ""
         THEN <<Head(q)[2]>> \o ValuesOf(Tail(q), k)
         ELSE ValuesOf(Tail(q), k)

parse_qs(q) ==
    LET keys == {q[i][1] : i \in {j \in DOMAIN q : q[j][2] # ""}}
    IN  [k \in keys |-> QsList(ValuesOf(q, k))]

AccessToken == Str("config.access_token")

\* InstagramStream.get_url_params
InstagramStream_get_url_params(s, next_page_token) ==
    IF next_page_token # None
    THEN parse_qs(next_page_token[1])
    ELSE LET p == SetItem(EmptyDict, "access_token", AccessToken)
         IN  IF replication_key(s) # None
             THEN SetItem(SetItem(p, "sort", Str("asc")), "order_by", Str(replication_key(s)[1]))
             ELSE p

\* UsersStream.get_url_params and StoriesStream.get_url_params
UsersStream_get_url_params(s, next_page_token) ==
    SetItem(InstagramStream_get_url_params(s, next_page_token), "fields", Joined(fields(s)))

\* make_since_param with the lookback added instead of subtracted
make_since_param_added(ts, days) ==
    IF ts # None THEN Some(ts[1] + days * SecondsPerDay) ELSE ts

\* MediaStream.make_since_param: the starting timestamp less the lookback
make_since_param(ts, days) ==
    IF ts # None THEN Some(ts[1] - days * SecondsPerDay) ELSE ts

OptDateTime(o) == IF o = None THEN PyNone ELSE DateTime(o[1])

\* MediaStream.get_url_params that sets since on the first page only and
\* keeps what the token brings on a follow-up page
MediaStream_get_url_params_token_since(s, next_page_token) ==
    LET p  == InstagramStream_get_url_params(s, next_page_token)
        pf == SetItem(p, "fields", Joined(fields(s)))
    IN  IF next_page_token # None THEN pf
        ELSE SetItem(pf, "since",
                     OptDateTime(make_since_param(starting_timestamp, lookback_days)))

\* MediaStream.get_url_params (inherited by MediaChildrenStream)
MediaStream_get_url_params(s, next_page_token) ==
    LET p  == InstagramStream_get_url_params(s, next_page_token)
        pf == SetItem(p, "fields", Joined(fields(s)))
    IN  SetItem(pf, "since", OptDateTime(make_since_param(starting_timestamp, lookback_days)))

\* MediaInsightsStream.get_url_params that asks for no metric when the media
\* type is unknown
MediaInsightsStream_get_url_params_lenient(s, context, next_page_token) ==
    LET p == InstagramStream_get_url_params(s, next_page_token)
        m == _metrics_for_media_type(context.media_type, context.media_product_type)
    IN  IF m.error # "none" THEN Return(p)
        ELSE Return(SetItem(p, "metric", Joined(m.value)))

\* MediaInsightsStream.get_url_params and StoryInsightsStream.get_url_params
MediaInsightsStream_get_url_params(s, context, next_page_token) ==
    LET p == InstagramStream_get_url_params(s, next_page_token)
        m == _metrics_for_media_type(context.media_type, context.media_product_type)
    IN  IF m.error # "none" THEN Raise(m.error)
        ELSE Return(SetItem(p, "metric", Joined(m.value)))

\* UserInsightsStream.get_url_params; the second component is the pair the
\* window planner returned, when it was called
UserInsightsStream_get_url_params(s, next_page_token) ==
    LET p == InstagramStream_get_url_params(s, next_page_token)
    IN  IF next_page_token # None THEN <<p, None>>
        ELSE LET pm == SetItem(SetItem(p, "metric", Joined(metrics(s))),
                               "period", Str(time_period(s)))
             IN  IF has_pagination(s)
                 THEN LET r == _fetch_time_based_pagination_range(
                                   starting_timestamp, signpost, min_since,
                                   max_until, max_time_window)
                      IN  <<SetItem(SetItem(pm, "since", DateTime(r.since)),
                                    "until", DateTime(r.until)), Some(r)>>
                 ELSE <<pm, None>>

\* get_url_params of stream s, by class
get_url_params(s, context, next_page_token) ==
    CASE s \in {"users", "stories"} -> Return(UsersStream_get_url_params(s, next_page_token))
      [] s \in MediaStreams -> Return(MediaStream_get_url_params(s, next_page_token))
      [] s \in InsightsStreams -> MediaInsightsStream_get_url_params(s, context, next_page_token)
      [] s \in UserInsightsStreams ->
            Return(UserInsightsStream_get_url_params(s, next_page_token)[1])

----------------------------------------------------------------------------
(* Response bodies and the normalizers (parse_response).                   *)
(*                                                                         *)
(* A body is a record of Optionals: error (the "error" object, itself a    *)
(* record with an Optional error_user_title), data (the list at "data")    *)
(* and paging (the "paging" object, a record with an Optional next, the    *)
(* URL of the next page).  An insight record is a dict with                *)
(* name, period, title, id, description and, when present, values: a list  *)
(* of value entries.  A value entry is a dict; its "value" is Num(n) or    *)
(* Dict(pairs), pairs being the items of the mapping in insertion order.   *)
(* A raw date-time is Iso(day, sec, offset); the formatted one Fmt(day,    *)
(* sec).                                                                   *)
Num(n) == <<"int", n>>
Dict(pairs) == <<"dict", pairs>>
Iso(day, sec, offset) == <<"iso", day, sec, offset>>
Fmt(day, sec) == <<"fmt", day, sec>>

\* pendulum.parse(x).format("YYYY-MM-DD HH:mm:ss"): the wall-clock date and
\* time of x in the offset x was written with; the offset is not printed
format_datetime(x) == Fmt(x[2], x[3])

SoftSkipTitle == "Media posted before business account conversion"

\* dict.update: d with every item of e
Update(d, e) == [k \in DOMAIN d \cup DOMAIN e |-> IF k \in DOMAIN e THEN e[k] ELSE d[k]]

BaseKeys == {"name", "period", "title", "id", "description"}
base_item(row) == [k \in BaseKeys |-> row[k]]

\* the rows of one keyed-mapping value entry, one per item
fan_out(values, base) ==
    LET items == values["value"][2]
    IN  [i \in DOMAIN items |->
            Update([context |-> Str(items[i][1]),
                    value |-> Num(items[i][2]),
                    end_time |-> format_datetime(values["end_time"])],
                   base)]

\* normalize_entry that leaves end_time of a scalar entry as received
normalize_entry_raw_end_time(values, base) ==
    IF values["value"][1] = "dict"
    THEN IF values["value"][2] = <<>> THEN [rows |-> <<>>, error |-> "none"]
         ELSE IF "end_time" \notin DOMAIN values THEN [rows |-> <<>>, error |-> "KeyError"]
         ELSE [rows |-> fan_out(values, base), error |-> "none"]
    ELSE [rows |-> <<Update(values, base)>>, error |-> "none"]

\* the body of "for values in row['values']" for one entry: the rows it
\* yields, and KeyError when values["end_time"] is looked up and missing
normalize_entry(values, base) ==
    IF values["value"][1] = "dict"
    THEN IF values["value"][2] = <<>> THEN [rows |-> <<>>, error |-> "none"]
         ELSE IF "end_time" \notin DOMAIN values THEN [rows |-> <<>>, error |-> "KeyError"]
         ELSE [rows |-> fan_out(values, base), error |-> "none"]
    ELSE LET v == Update(values, base)
         IN  [rows |-> <<IF "end_time" \in DOMAIN v
                         THEN SetItem(v, "end_time", format_datetime(v["end_time"]))
                         ELSE v>>,
              error |-> "none"]

\* the loop over the value entries of one record; rows yielded before an
\* exception stay yielded
RECURSIVE normalize_entries(_, _)
normalize_entries(entries, base) ==
    IF entries = <<>> THEN [rows |-> <<>>, error |-> "none"]
    ELSE LET h == normalize_entry(Head(entries), base)
         IN  IF h.error # "none" THEN h
             ELSE LET t == normalize_entries(Tail(entries), base)
                  IN  [rows |-> h.rows \o t.rows, error |-> t.error]

\* the loop over resp_json["data"]
RECURSIVE normalize_records(_)
normalize_records(data) ==
    IF data = <<>> THEN [rows |-> <<>>, error |-> "none"]
    ELSE LET row == Head(data)
             h == IF "values" \in DOMAIN row
                  THEN normalize_entries(row["values"], base_item(row))
                  ELSE [rows |-> <<>>, error |-> "none"]
         IN  IF h.error # "none" THEN h
             ELSE LET t == normalize_records(Tail(data))
                  IN  [rows |-> h.rows \o t.rows, error |-> t.error]

\* resp_json.get("error", {}).get("error_user_title")
error_user_title(body) ==
    IF body.error = None THEN None ELSE body.error[1].error_user_title

\* UserInsightsStream.parse_response
UserInsightsStream_parse_response(body) ==
    IF body.data = None THEN [rows |-> <<>>, error |-> "KeyError"]
    ELSE normalize_records(body.data[1])

\* MediaInsightsStream.parse_response and StoryInsightsStream.parse_response
MediaInsightsStream_parse_response(body) ==
    IF error_user_title(body) = Some(SoftSkipTitle)
    THEN [rows |-> <<>>, error |-> "none"]
    ELSE UserInsightsStream_parse_response(body)

\* MediaStream.parse_response, also of the stories and media_children streams
MediaStream_parse_response(body) ==
    IF body.data = None THEN [rows |-> <<>>, error |-> "none"]
    ELSE [rows |-> [i \in DOMAIN body.data[1] |->
                      LET row == body.data[1][i]
                      IN  IF "timestamp" \in DOMAIN row
                          THEN SetItem(row, "timestamp", format_datetime(row["timestamp"]))
                          ELSE row],
          error |-> "none"]

\* InstagramStream.parse_response (the users stream)
InstagramStream_parse_response(body) ==
    [rows |-> IF body.data = None THEN <<>> ELSE body.data[1], error |-> "none"]

parse_response(s, body) ==
    CASE s \in UserInsightsStreams -> UserInsightsStream_parse_response(body)
      [] s \in InsightsStreams -> MediaInsightsStream_parse_response(body)
      [] s \in MediaStreams \cup {"stories"} -> MediaStream_parse_response(body)
      [] s = "users" -> InstagramStream_parse_response(body)

----------------------------------------------------------------------------
(* Validation of a response and the token of the next page *)

\* RESTStream.validate_response: a 4xx status is fatal, a 5xx retriable
RESTStream_validate_response(resp) ==
    IF resp.status >= 400 /\ resp.status < 500 THEN "FatalAPIError"
    ELSE IF resp.status >= 500 /\ resp.status < 600 THEN "RetriableAPIError"
    ELSE "none"

IsSoftSkip(body) == error_user_title(body) = Some(SoftSkipTitle)

\* MediaInsightsStream.validate_response without the early return
MediaInsightsStream_validate_response_strict(resp) ==
    [error |-> RESTStream_validate_response(resp), warned |-> FALSE]

\* MediaInsightsStream.validate_response and StoryInsightsStream.validate_response:
\* the exception raised, and whether a warning was logged
MediaInsightsStream_validate_response(resp) ==
    IF IsSoftSkip(resp.body)
    THEN [error |-> "none", warned |-> TRUE]
    ELSE [error |-> RESTStream_validate_response(resp), warned |-> FALSE]

\* validate_response that lets every error payload of an insights stream pass
validate_response_any_error(s, resp) ==
    IF s \in InsightsStreams /\ resp.body.error # None
    THEN [error |-> "none", warned |-> TRUE]
    ELSE [error |-> RESTStream_validate_response(resp), warned |-> FALSE]

validate_response(s, resp) ==
    IF s \in InsightsStreams THEN MediaInsightsStream_validate_response(resp)
    ELSE [error |-> RESTStream_validate_response(resp), warned |-> FALSE]

\* extract_jsonpath("$.paging.next", body), first match or None
first_match(body) ==
    IF body.paging = None THEN None ELSE body.paging[1].next

\* get_next_page_token that keeps the previous token when none is found
get_next_page_token_sticky(body, previous_token) ==
    IF first_match(body) = None THEN previous_token ELSE first_match(body)

\* InstagramStream.get_next_page_token (next_page_token_jsonpath is set)
get_next_page_token(body, previous_token) == first_match(body)

\* "None if no more pages": the page loop ends when no token was returned
finished(token) == token = None

----------------------------------------------------------------------------
(* First request of a stream that has a replication key: the parameters,   *)
(* and for the user-insights streams the planned window.                   *)

OptTimes == {None} \cup {Some(t) : t \in Times}

\* the dates of the documented example, in days after 2022-01-01:
\* 2024-01-01, 2024-06-01 and a signpost after 2024-01-31
ExampleCursor == (2 * 365) * SecondsPerDay
ExampleMaxUntil == (2 * 365 + 152) * SecondsPerDay
ExampleSignpost == (2 * 365 + 170) * SecondsPerDay

NoResponse == [status |-> 0, body |-> [error |-> None, data |-> None, paging |-> None]]
NoContext == [user_id |-> "none"]

\* no account is configured and no stream graph is walked
NoGraph ==
    /\ ig_user_ids = <<>>
    /\ upstream = <<>>
    /\ agenda = <<>>
    /\ log = <<>>

\* no run over a partition is followed
NoRuns ==
    /\ upstream_rows = {}
    /\ pending = <<>>
    /\ emitted = <<>>
    /\ bookmark_at_start = None
    /\ runs = 0

\* nothing requested, nothing received
Idle ==
    /\ window = None
    /\ params = EmptyDict
    /\ requests = 0
    /\ warnings = 0
    /\ page_token = None
    /\ sent = <<>>
    /\ received = <<>>
    /\ rows = <<>>
    /\ failure = "none"
    /\ completed = 0

WindowIdle ==
    /\ pc = "idle"
    /\ Idle
    /\ response = NoResponse
    /\ contexts = <<>>
    /\ current_context = [user_id |-> "17841400000000001"]

WindowInit ==
    /\ WindowIdle
    /\ NoGraph
    /\ NoRuns
    /\ \/ /\ stream \in UserInsightsStreams
          /\ starting_timestamp \in OptTimes
          /\ signpost \in Times
          /\ min_since \in Times
          /\ max_until \in Times
          /\ max_time_window \in Windows
          /\ lookback_days = DefaultLookbackDays
       \/ /\ stream = "user_insights_daily"
          /\ starting_timestamp \in {None, Some(ExampleCursor)}
          /\ signpost = ExampleSignpost
          /\ min_since = 0
          /\ max_until = ExampleMaxUntil
          /\ max_time_window = Duration(DefaultWindowDays, 0)
          /\ lookback_days = DefaultLookbackDays
       \/ /\ stream \in MediaStreams
          /\ starting_timestamp \in OptTimes
          /\ lookback_days \in Lookbacks
          /\ signpost = 0
          /\ min_since = 0
          /\ max_until = 0
          /\ max_time_window = Duration(DefaultWindowDays, 0)

\* UserInsightsStream.get_url_params for the first page, then the request
UserInsightsFirstRequest ==
    /\ pc = "idle"
    /\ stream \in UserInsightsStreams
    /\ LET r == UserInsightsStream_get_url_params(stream, None)
       IN  /\ params' = r[1]
           /\ window' = r[2]
    /\ requests' = requests + 1
    /\ pc' = "requested"
    /\ UNCHANGED <<stream, config, warnings, pagevars, response, rows, failure>>
    /\ UNCHANGED <<graphvars, runvars>>

\* MediaStream.get_url_params for the first page, then the request
MediaFirstRequest ==
    /\ pc = "idle"
    /\ stream \in MediaStreams
    /\ params' = MediaStream_get_url_params(stream, None)
    /\ requests' = requests + 1
    /\ pc' = "requested"
    /\ UNCHANGED <<stream, config, window, warnings, pagevars, response, rows, failure>>
    /\ UNCHANGED <<graphvars, runvars>>

WindowNext == UserInsightsFirstRequest \/ MediaFirstRequest

SpecWindow == WindowInit /\ [][WindowNext]_vars

Planned == pc = "requested" /\ window # None

----------------------------------------------------------------------------
C2_FullWidthWindow ==
    (Planned /\ starting_timestamp # None) =>
        /\ window[1].since = Min(Max(starting_timestamp[1], min_since), max_until)
        /\ window[1].until = Min(Min(signpost, window[1].since + total_seconds(max_time_window)),
                                 max_until)

C4_FallbackWindow ==
    (Planned /\ starting_timestamp = None) =>
        /\ window[1].since = min_since
        /\ window[1].until = min_since + total_seconds(max_time_window)
        /\ warnings > 0

\* the since parameter of the request that was sent
SinceSent == params["since"][2]
SinceWasSent ==
    /\ pc = "requested"
    /\ "since" \in DOMAIN params
    /\ params["since"][1] = "datetime"

\* C5 (as stated): the since sent is never earlier than the bookmark.
C5_SinceNotBeforeBookmark ==
    (SinceWasSent /\ starting_timestamp # None) =>
        SinceSent >= starting_timestamp[1]

\* C5 (amended): the since of a user-insights request is never earlier than
\* min(bookmark, max_until), so it is at or after the bookmark whenever the
\* bookmark is at or before max_until; the since of a media or media_children
\* request is the bookmark less media_insights_lookback_days, which is at or
\* before the bookmark.
C5_SinceAgainstBookmark ==
    (SinceWasSent /\ starting_timestamp # None) =>
        /\ stream \in UserInsightsStreams =>
              /\ SinceSent >= Min(starting_timestamp[1], max_until)
              /\ (starting_timestamp[1] <= max_until => SinceSent >= starting_timestamp[1])
        /\ stream \in MediaStreams =>
              /\ SinceSent = starting_timestamp[1] - lookback_days * SecondsPerDay
              /\ SinceSent <= starting_timestamp[1]

\* a media request whose bookmark was moved back by a lookback of several days
C5_Witness ==
    /\ SinceWasSent
    /\ stream \in MediaStreams
    /\ starting_timestamp # None
    /\ lookback_days > 0
    /\ SinceSent < starting_timestamp[1]

----------------------------------------------------------------------------
(* The normalizer applied to one insights response.                        *)

\* most items in a keyed-mapping value, most value entries in a record
MaxKeys == 2
MaxEntries == 2

item_key(i) == CASE i = 1 -> "male" [] i = 2 -> "female" [] OTHER -> ToString(i)
Items(k) == [i \in 1..k |-> <<item_key(i), 10 * i>>]

EntryValues == {Num(5)} \cup {Dict(Items(k)) : k \in 0..MaxKeys}
\* 2024-01-01T00:00:00-08:00, in days after 2022-01-01
RawEndTime == Iso(2 * 365, 0, 0 - 8 * HourSeconds)
Entries == {[value |-> v] : v \in EntryValues}
               \cup {[value |-> v, end_time |-> RawEndTime] : v \in EntryValues}

RECURSIVE SeqsUpTo(_, _)
SeqsUpTo(S, n) ==
    IF n = 0 THEN {<<>>}
    ELSE LET shorter == SeqsUpTo(S, n - 1)
         IN  shorter \cup {Append(q, x) : q \in shorter, x \in S}

Shared(tag) ==
    [name |-> Str("audience_gender"), period |-> Str("lifetime"),
     title |-> Str("Gender"), id |-> Str(tag),
     description |-> Str("The gender distribution of followers")]

InsightRecord(tag, values) == Update(Shared(tag), [values |-> values])

FirstRecords == {Shared("A/insights/audience_gender/lifetime")}
                   \cup {InsightRecord("A/insights/audience_gender/lifetime", v) :
                            v \in SeqsUpTo(Entries, MaxEntries)}
SecondRecords == {InsightRecord("B/insights/audience_gender/lifetime", <<e>>) :
                     e \in {[value |-> Num(7)],
                            [value |-> Dict(Items(1)), end_time |-> RawEndTime]}}

InsightData == {<<r>> : r \in FirstRecords}
                  \cup {<<r, q>> : r \in FirstRecords, q \in SecondRecords}

DataBody(data, paging) == [error |-> None, data |-> Some(data), paging |-> paging]
ErrorBody(title) == [error |-> Some([error_user_title |-> title]), data |-> None,
                     paging |-> None]

\* the arguments the user-insights streams pass by default, on the dates of
\* the documented example
DefaultConfig ==
    /\ signpost = ExampleSignpost
    /\ min_since = 0
    /\ max_until = ExampleMaxUntil
    /\ max_time_window = Duration(DefaultWindowDays, 0)
    /\ lookback_days = DefaultLookbackDays

NormInit ==
    /\ pc = "received"
    /\ Idle
    /\ NoGraph
    /\ NoRuns
    /\ DefaultConfig
    /\ starting_timestamp = None
    /\ contexts = <<>>
    /\ current_context = NoContext
    /\ \/ /\ stream \in {"user_insights_audience", "media_insights", "story_insights"}
          /\ \E d \in InsightData : response = [status |-> 200, body |-> DataBody(d, None)]
       \/ /\ stream \in InsightsStreams
          /\ response = [status |-> 400, body |-> ErrorBody(Some(SoftSkipTitle))]

\* parse_response of a user-insights stream on the response
UserInsightsParse ==
    /\ pc = "received"
    /\ stream \in UserInsightsStreams
    /\ LET r == UserInsightsStream_parse_response(response.body)
       IN  /\ rows' = r.rows
           /\ failure' = r.error
    /\ pc' = "parsed"
    /\ UNCHANGED <<stream, config, window, params, requests, warnings, pagevars, response>>
    /\ UNCHANGED <<graphvars, runvars>>

\* parse_response of media_insights or story_insights on the response
MediaInsightsParse ==
    /\ pc = "received"
    /\ stream \in InsightsStreams
    /\ LET r == MediaInsightsStream_parse_response(response.body)
       IN  /\ rows' = r.rows
           /\ failure' = r.error
    /\ pc' = "parsed"
    /\ UNCHANGED <<stream, config, window, params, requests, warnings, pagevars, response>>
    /\ UNCHANGED <<graphvars, runvars>>

NormNext == UserInsightsParse \/ MediaInsightsParse

SpecNorm == NormInit /\ [][NormNext]_vars

\* the records of the parsed response
Parsed == pc = "parsed" /\ response.body.data # None
ParsedData == response.body.data[1]
RowsOf(r) == SelectSeq(rows, LAMBDA row : row["id"] = r["id"])
KeyedRowsOf(r) == SelectSeq(RowsOf(r), LAMBDA row : "context" \in DOMAIN row)
IsKeyed(e) == e["value"][1] = "dict"

RECURSIVE ItemCount(_)
ItemCount(entries) ==
    IF entries = <<>> THEN 0
    ELSE (IF IsKeyed(Head(entries)) THEN Len(Head(entries)["value"][2]) ELSE 0)
            + ItemCount(Tail(entries))

\* C8: a value entry that is a keyed mapping of k keys yields exactly k
\* rows, one per key, with context = the key, value = the mapped scalar and
\* the id, name, period, title and description of the source record.
C8_FanOut ==
    Parsed =>
        \A ri \in DOMAIN ParsedData :
            LET r == ParsedData[ri]
            IN  "values" \in DOMAIN r =>
                  /\ Len(KeyedRowsOf(r)) = ItemCount(r["values"])
                  /\ \A ei \in DOMAIN r["values"] :
                        LET e == r["values"][ei]
                        IN  IsKeyed(e) =>
                              \A ii \in DOMAIN e["value"][2] :
                                \E x \in DOMAIN rows :
                                    /\ "context" \in DOMAIN rows[x]
                                    /\ rows[x]["context"] = Str(e["value"][2][ii][1])
                                    /\ rows[x]["value"] = Num(e["value"][2][ii][2])
                                    /\ \A k \in BaseKeys : rows[x][k] = r[k]

AllScalar(r) == \A ei \in DOMAIN r["values"] : ~IsKeyed(r["values"][ei])

\* no keyed-mapping entry of the response lacks end_time
KeyedEntriesDated ==
    \A ri \in DOMAIN ParsedData :
        "values" \in DOMAIN ParsedData[ri] =>
            \A ei \in DOMAIN ParsedData[ri]["values"] :
                LET e == ParsedData[ri]["values"][ei]
                IN  (IsKeyed(e) /\ e["value"][2] # <<>>) => "end_time" \in DOMAIN e

----------------------------------------------------------------------------
(* The page loop of one stream over its Contexts: for each Context the     *)
(* parameters are built, the request is sent, the response is validated    *)
(* and parsed, and the next token is taken from it, until none is found.   *)

\* most pages upstream holds for one Context, most Contexts of one run
MaxPages == 3
MaxContexts == 2

\* the query string of the URL at paging.next of page k: either the cursor
\* alone, or a full parameter set with a blank and a repeated key
TokenQuery(shape, k) ==
    IF shape = 1
    THEN <<<<"access_token", "page-token">>, <<"after", ToString(k)>>>>
    ELSE <<<<"access_token", "page-token">>, <<"fields", "id,timestamp">>,
           <<"since", "1704067200">>, <<"until", "1706659200">>,
           <<"metric", "reach">>, <<"period", "week">>, <<"limit", "">>,
           <<"after", ToString(k)>>, <<"after", "again">>>>

Pagings(k) == {None, Some([next |-> None])}
                 \cup {Some([next |-> Some(TokenQuery(shape, k))]) : shape \in {1, 2}}

RawTimestamp == Iso(2 * 365, 8 * HourSeconds, 0)
PageData(s) ==
    CASE s \in UserInsightsStreams \cup InsightsStreams ->
            {<<>>, <<InsightRecord("A/insights/reach/day",
                                   <<[value |-> Num(5), end_time |-> RawTimestamp]>>)>>}
      [] s \in MediaStreams \cup {"stories"} ->
            {<<>>, <<[id |-> Str("17900000000000001"), media_type |-> Str("VIDEO"),
                      timestamp |-> RawTimestamp]>>}
      [] s = "users" -> {<<[id |-> Str("17841400000000001")]>>}

ErrorTitles == {None, Some(SoftSkipTitle), Some("Unsupported get request")}

\* what upstream may answer to the request for page k of a Context
Responses(s, k) ==
    {[status |-> 200, body |-> DataBody(d, pg)] :
        d \in PageData(s), pg \in IF k < MaxPages THEN Pagings(k) ELSE {None}}
      \cup {[status |-> st, body |-> ErrorBody(t)] : st \in {400, 500}, t \in ErrorTitles}

UserContexts == {[user_id |-> u] : u \in {"17841400000000001", "17841400000000002"}}
MediaContexts ==
    {[media_id |-> "17900000000000001", media_type |-> mt[1], media_product_type |-> mt[2]] :
        mt \in {<<"IMAGE", "FEED">>, <<"IMAGE", "STORY">>, <<"IMAGE", "None">>,
                <<"VIDEO", "None">>, <<"VIDEO", "STORY">>, <<"CAROUSEL_ALBUM", "None">>,
                <<"CAROUSEL_ALBUM", "STORY">>, <<"AUDIO", "FEED">>}}

ContextsOf(s) ==
    IF s \in InsightsStreams \cup {"media_children"} THEN MediaContexts ELSE UserContexts

PagesInit ==
    /\ pc = "next"
    /\ Idle
    /\ NoGraph
    /\ NoRuns
    /\ DefaultConfig
    /\ response = NoResponse
    /\ current_context = NoContext
    /\ stream \in Streams
    /\ starting_timestamp \in {None, Some(ExampleCursor)}
    /\ contexts \in SeqsUpTo(ContextsOf(stream), MaxContexts) \ {<<>>}

\* the sync of the next Context begins
StartContext ==
    /\ pc = "next"
    /\ contexts # <<>>
    /\ current_context' = Head(contexts)
    /\ contexts' = Tail(contexts)
    /\ page_token' = None
    /\ sent' = <<>>
    /\ received' = <<>>
    /\ response' = NoResponse
    /\ rows' = <<>>
    /\ pc' = "prepare"
    /\ UNCHANGED <<stream, config, window, params, requests, warnings, failure, completed>>
    /\ UNCHANGED <<graphvars, runvars>>

\* prepare_request: get_url_params raises, or the request is sent
SendRequest ==
    /\ pc = "prepare"
    /\ LET r == get_url_params(stream, current_context, page_token)
       IN  IF r.error # "none"
           THEN /\ failure' = r.error
                /\ pc' = "failed"
                /\ UNCHANGED <<params, sent, requests>>
           ELSE /\ params' = r.value
                /\ sent' = Append(sent, page_token)
                /\ requests' = requests + 1
                /\ pc' = "waiting"
                /\ UNCHANGED failure
    /\ window' = IF stream \in UserInsightsStreams
                 THEN UserInsightsStream_get_url_params(stream, page_token)[2]
                 ELSE window
    /\ UNCHANGED <<stream, config, warnings, contexts, current_context, page_token,
                   received, completed, response, rows>>
    /\ UNCHANGED <<graphvars, runvars>>

\* the response arrives: validate_response, parse_response, then
\* get_next_page_token decides whether another page is requested; an
\* exception of any of them ends the run (retries are not modelled)
ReceiveResponse ==
    /\ pc = "waiting"
    /\ \E resp \in Responses(stream, Len(sent)) :
          LET v == validate_response(stream, resp)
              r == parse_response(stream, resp.body)
              token == get_next_page_token(resp.body, page_token)
          IN  /\ response' = resp
              /\ received' = Append(received, first_match(resp.body))
              /\ warnings' = IF v.warned THEN warnings + 1 ELSE warnings
              /\ IF v.error # "none"
                 THEN /\ failure' = v.error
                      /\ pc' = "failed"
                      /\ UNCHANGED <<rows, page_token, completed>>
                 ELSE IF r.error # "none"
                 THEN /\ failure' = r.error
                      /\ rows' = r.rows
                      /\ pc' = "failed"
                      /\ UNCHANGED <<page_token, completed>>
                 ELSE /\ rows' = r.rows
                      /\ page_token' = token
                      /\ pc' = IF finished(token) THEN "next" ELSE "prepare"
                      /\ completed' = IF finished(token) THEN completed + 1 ELSE completed
                      /\ UNCHANGED failure
    /\ UNCHANGED <<stream, config, window, params, requests, contexts, current_context, sent>>
    /\ UNCHANGED <<graphvars, runvars>>

PagesNext == StartContext \/ SendRequest \/ ReceiveResponse

SpecPages == PagesInit /\ [][PagesNext]_vars

Last(q) == q[Len(q)]

\* C6: the pages of one Context stop exactly at the first response without a
\* value at $.paging.next: there is one request per page, request k + 1
\* carries the token of response k, no request follows a response without
\* a token, and the Context ends only on such a response.
C6_StopsAtFirstTokenlessPage ==
    /\ Len(sent) \in {Len(received), Len(received) + 1}
    /\ \A k \in DOMAIN sent :
          IF k = 1 THEN sent[k] = None
          ELSE received[k - 1] # None /\ sent[k] = received[k - 1]
    /\ (pc = "next" /\ received # <<>>) =>
          (Len(sent) = Len(received) /\ Last(received) = None)
    /\ (pc = "prepare" /\ received # <<>>) => Last(received) # None

\* a chain of three pages, the third without a token, was read to its end
C6_Witness ==
    /\ pc = "next"
    /\ Len(received) = 3
    /\ Len(sent) = 3
    /\ received[1] # None
    /\ received[2] # None
    /\ received[3] = None
    /\ failure = "none"

\* C7: a request built from a page token carries exactly the parameters of
\* the token URL, for every stream.
C7_TokenReplacesParams ==
    (pc = "waiting" /\ Last(sent) # None) =>
        /\ DOMAIN params = DOMAIN parse_qs(Last(sent)[1])
        /\ \A k \in DOMAIN params :
              /\ params[k][1] = "list"
              /\ params[k] = parse_qs(Last(sent)[1])[k]

\* C10: in media_insights and story_insights the response with the known
\* error_user_title passes validation, yields no row and ends the pages
\* of its Context without an exception, so that the next Context, when
\* there is one, is synced.
C10_SoftSkipContinues ==
    (stream \in InsightsStreams /\ IsSoftSkip(response.body)) =>
        /\ failure = "none"
        /\ rows = <<>>
        /\ pc = "next"
        /\ completed >= 1
        /\ contexts # <<>> => ENABLED StartContext

\* a 400 response with the known title was skipped and a Context is left
C10_Witness ==
    /\ stream \in InsightsStreams
    /\ IsSoftSkip(response.body)
    /\ response.status = 400
    /\ pc = "next"
    /\ contexts # <<>>
    /\ warnings >= 1

\* C11: in media_insights and story_insights an error response whose
\* error_user_title is absent or differs from the known phrase goes through
\* the standard validation: it ends the pages of its Context with a
\* FatalAPIError when the status is 4xx and with a RetriableAPIError when it
\* is 5xx, and is never completed as an empty page without an error.
C11_OnlyKnownPayloadSkipped ==
    (/\ stream \in InsightsStreams
     /\ response.status >= 400
     /\ response.body.error # None
     /\ response.body.error[1].error_user_title # Some(SoftSkipTitle)) =>
        /\ pc = "failed"
        /\ failure = IF response.status < 500 THEN "FatalAPIError" ELSE "RetriableAPIError"
        /\ failure # "none"

\* an unrecognised error payload was refused: another title under a 4xx
\* status, or no title under a 5xx status
C11_Witness ==
    /\ stream \in InsightsStreams
    /\ pc = "failed"
    /\ response.body.error # None
    /\ \/ /\ response.status = 400
          /\ response.body.error[1].error_user_title = Some("Unsupported get request")
          /\ failure = "FatalAPIError"
       \/ /\ response.status = 500
          /\ response.body.error[1].error_user_title = None
          /\ failure = "RetriableAPIError"

----------------------------------------------------------------------------
(* The stream graph: every stream but users names a parent stream, and a   *)
(* parent hands each of its rows to get_child_context to make the Context  *)
(* its child streams are synced with.                                      *)

STREAM_TYPES ==
    <<"media_children", "media_insights", "media", "stories", "story_insights",
      "user_insights_28day", "user_insights_audience", "user_insights_daily",
      "user_insights_followers", "user_insights_online_followers",
      "user_insights_weekly", "users">>

\* parent_stream_type with story_insights hung under media
parent_stream_type_by_media(s) ==
    CASE s \in {"media", "stories"} \cup UserInsightsStreams -> Some("users")
      [] s \in {"media_children", "media_insights", "story_insights"} -> Some("media")
      [] s = "users" -> None

\* parent_stream_type of each stream class, None for the root
parent_stream_type(s) ==
    CASE s \in {"media", "stories"} \cup UserInsightsStreams -> Some("users")
      [] s \in {"media_children", "media_insights"} -> Some("media")
      [] s = "story_insights" -> Some("stories")
      [] s = "users" -> None

\* the streams that name s as their parent, in the order of STREAM_TYPES
child_streams(s) ==
    SelectSeq(STREAM_TYPES, LAMBDA c : parent_stream_type(c) = Some(s))

state_partitioning_keys(s) ==
    IF s \in {"media_children", "media_insights", "story_insights"}
    THEN Some({"user_id"})
    ELSE None

\* UsersStream.get_child_context
UsersStream_get_child_context(record, context) == [user_id |-> record["id"][2]]

\* MediaStream.get_child_context that also passes the account on
MediaStream_get_child_context_with_user(record, context) ==
    [user_id |-> context["user_id"],
     media_id |-> record["id"][2],
     media_type |-> record["media_type"][2],
     media_product_type |-> IF "media_product_type" \in DOMAIN record
                            THEN record["media_product_type"][2]
                            ELSE "None"]

\* MediaStream.get_child_context and StoriesStream.get_child_context;
\* record.get("media_product_type") is None when the row has no such field
MediaStream_get_child_context(record, context) ==
    [media_id |-> record["id"][2],
     media_type |-> record["media_type"][2],
     media_product_type |-> IF "media_product_type" \in DOMAIN record
                            THEN record["media_product_type"][2]
                            ELSE "None"]

get_child_context(s, record, context) ==
    IF s = "users" THEN UsersStream_get_child_context(record, context)
    ELSE MediaStream_get_child_context(record, context)

\* the Context projected onto the state partitioning keys of the stream
_get_state_partition_context(s, context) ==
    IF state_partitioning_keys(s) = None THEN context
    ELSE [k \in DOMAIN context \cap state_partitioning_keys(s)[1] |-> context[k]]

----------------------------------------------------------------------------
(* One run of the tap over the stream graph.  The agenda holds, first to   *)
(* be done first, the Context syncs that are due and the rows of a synced  *)
(* Context that are still to be yielded; a row is yielded, the syncs of    *)
(* its child streams are done, then the next row is yielded.  A task and   *)
(* a log entry carry the account they descend from and the log index of    *)
(* the parent row they come from, which the program itself does not keep.  *)

\* most accounts configured, most media rows upstream holds for an account
MaxUsers == 2
MaxMedia == 2

Accounts == {"17841400000000001", "17841400000000002"}

\* the id of the k-th media row of an account
MediaId(u, k) ==
    ToString((IF u = "17841400000000001" THEN 100 ELSE 200) + 22 + k)

\* the variants of a media row: a VIDEO with no product type, an IMAGE of
\* the feed, and a media type the insights streams do not know
MediaVariants ==
    {[media_type |-> Str("VIDEO"), timestamp |-> RawTimestamp,
      caption |-> Str("a caption"), like_count |-> Num(3)],
     [media_type |-> Str("IMAGE"), media_product_type |-> Str("FEED"),
      timestamp |-> RawTimestamp],
     [media_type |-> Str("AUDIO"), media_product_type |-> Str("FEED"),
      timestamp |-> RawTimestamp]}

StoryVariants ==
    {[media_type |-> Str("IMAGE"), media_product_type |-> Str("STORY"),
      timestamp |-> RawTimestamp]}

\* the rows upstream returns: each variant under the id of its position,
\* counted from first
RowsOfAccount(u, variants, first) ==
    [k \in DOMAIN variants |-> SetItem(variants[k], "id", Str(MediaId(u, first + k)))]

\* distinct accounts, in the order they are configured
UserIdLists ==
    {q \in SeqsUpTo(Accounts, MaxUsers) :
        q # <<>> /\ \A i, j \in DOMAIN q : i # j => q[i] # q[j]}

\* what upstream may hold for account u
UpstreamOf(u) ==
    [media : {RowsOfAccount(u, v, 0) : v \in SeqsUpTo(MediaVariants, MaxMedia)},
     stories : {RowsOfAccount(u, v, 50) : v \in SeqsUpTo(StoryVariants, 1)}]

Task(kind, s, context, account, origin, todo) ==
    [kind |-> kind, stream |-> s, context |-> context, account |-> account,
     origin |-> origin, rows |-> todo]

\* UsersStream.partitions: one Context per configured account
partitions(ids) ==
    [i \in DOMAIN ids |-> Task("sync", "users", [user_id |-> ids[i]], ids[i], 0, <<>>)]

GraphInit ==
    /\ pc = "run"
    /\ Idle
    /\ NoRuns
    /\ DefaultConfig
    /\ starting_timestamp = None
    /\ stream = "users"
    /\ contexts = <<>>
    /\ current_context = NoContext
    /\ response = NoResponse
    /\ ig_user_ids \in UserIdLists
    /\ upstream \in {f \in [Accounts -> UNION {UpstreamOf(u) : u \in Accounts}] :
                       \A u \in Accounts :
                          /\ f[u] \in UpstreamOf(u)
                          /\ (\A i \in DOMAIN ig_user_ids : ig_user_ids[i] # u) =>
                                (f[u].media = <<>> /\ f[u].stories = <<>>)}
    /\ agenda = partitions(ig_user_ids)
    /\ log = <<>>

Event(kind, t, row) ==
    [kind |-> kind, stream |-> t.stream, context |-> t.context, account |-> t.account,
     origin |-> t.origin, row |-> row,
     partition |-> _get_state_partition_context(t.stream, t.context)]

FatalResponse == [status |-> 400, body |-> ErrorBody(Some("Unsupported get request"))]

\* what upstream may answer to the request of a Context sync
GraphResponses(t) ==
    {FatalResponse} \cup
    CASE t.stream = "users" ->
            {[status |-> 200, body |-> DataBody(<<[id |-> Str(t.context.user_id)]>>, None)]}
      [] t.stream = "media" ->
            {[status |-> 200, body |-> DataBody(upstream[t.context.user_id].media, None)]}
      [] t.stream = "stories" ->
            {[status |-> 200, body |-> DataBody(upstream[t.context.user_id].stories, None)]}
      [] t.stream \in InsightsStreams ->
            {[status |-> 200, body |-> DataBody(<<>>, None)],
             [status |-> 400, body |-> ErrorBody(Some(SoftSkipTitle))]}
      [] OTHER -> {[status |-> 200, body |-> DataBody(<<>>, None)]}

\* the tasks done right after a row is yielded: the syncs of the child
\* streams with the row's Context, then the rows that follow it
after_row(children, following, rest) == children \o following \o rest

\* Stream.sync of one Context: the parameters are built, the request is
\* sent, the response validated and parsed; an exception raised on the way
\* is caught nowhere and ends the run
SyncContext ==
    /\ pc = "run"
    /\ agenda # <<>>
    /\ Head(agenda).kind = "sync"
    /\ LET t == Head(agenda)
           p == get_url_params(t.stream, t.context, None)
       IN  /\ stream' = t.stream
           /\ current_context' = t.context
           /\ IF p.error # "none"
              THEN /\ failure' = p.error
                   /\ pc' = "failed"
                   /\ UNCHANGED <<params, requests, response, rows, warnings, agenda, log>>
              ELSE /\ params' = p.value
                   /\ requests' = requests + 1
                   /\ log' = Append(log, Event("sync", t, EmptyDict))
                   /\ \E resp \in GraphResponses(t) :
                         LET v == validate_response(t.stream, resp)
                             r == parse_response(t.stream, resp.body)
                         IN  /\ response' = resp
                             /\ warnings' = IF v.warned THEN warnings + 1 ELSE warnings
                             /\ IF v.error # "none" \/ r.error # "none"
                                THEN /\ failure' = IF v.error # "none" THEN v.error
                                                   ELSE r.error
                                     /\ pc' = "failed"
                                     /\ UNCHANGED <<rows, agenda>>
                                ELSE /\ rows' = r.rows
                                     /\ agenda' = after_row(<<>>,
                                                     IF r.rows = <<>> THEN <<>>
                                                     ELSE <<[t EXCEPT !.kind = "rows",
                                                                      !.rows = r.rows]>>,
                                                     Tail(agenda))
                                     /\ UNCHANGED <<failure, pc>>
    /\ UNCHANGED <<config, window, contexts, page_token, sent, received, completed,
                   ig_user_ids, upstream, runvars>>

\* the next row of the synced Context is yielded and the syncs of the child
\* streams are put before everything else
YieldRow ==
    /\ pc = "run"
    /\ agenda # <<>>
    /\ Head(agenda).kind = "rows"
    /\ LET t == Head(agenda)
           record == Head(t.rows)
           child_context == get_child_context(t.stream, record, t.context)
           cs == child_streams(t.stream)
           children == [i \in DOMAIN cs |->
                          Task("sync", cs[i], child_context, t.account, Len(log) + 1, <<>>)]
           following == IF Tail(t.rows) = <<>> THEN <<>>
                        ELSE <<[t EXCEPT !.rows = Tail(t.rows)]>>
       IN  /\ log' = Append(log, Event("row", t, record))
           /\ agenda' = after_row(children, following, Tail(agenda))
    /\ UNCHANGED <<pc, stream, config, window, params, requests, warnings, pagevars,
                   response, rows, failure, ig_user_ids, upstream, runvars>>

\* every stream was synced for every Context
Finish ==
    /\ pc = "run"
    /\ agenda = <<>>
    /\ pc' = "done"
    /\ UNCHANGED <<stream, config, window, params, requests, warnings, pagevars,
                   response, rows, failure, graphvars, runvars>>

GraphNext == SyncContext \/ YieldRow \/ Finish

SpecGraph == GraphInit /\ [][GraphNext]_vars

\* the syncs begun so far for the child streams of media and of stories
MediaChildSyncs ==
    {j \in DOMAIN log :
        /\ log[j].kind = "sync"
        /\ log[j].stream \in {"media_children", "media_insights", "story_insights"}}

\* the parent row a logged sync descends from
ParentRow(j) == log[log[j].origin].row

\* C12 as stated: the child Context of a media or story row has exactly the
\* keys media_id and media_type, holding the row's id and media_type.
C12_ContextIsIdAndType ==
    \A j \in MediaChildSyncs :
        /\ DOMAIN log[j].context = {"media_id", "media_type"}
        /\ log[j].context["media_id"] = ParentRow(j)["id"][2]
        /\ log[j].context["media_type"] = ParentRow(j)["media_type"][2]

\* C12, amended: the child Context of a media or story row has exactly the
\* keys media_id, media_type and media_product_type; they hold the row's
\* id, its media_type, and its media_product_type or None when the row has
\* none.  No other field of the row and nothing of the parent's own
\* Context is passed on.
C12_ContextIsIdTypeAndProduct ==
    \A j \in MediaChildSyncs :
        /\ DOMAIN log[j].context = {"media_id", "media_type", "media_product_type"}
        /\ log[j].context["media_id"] = ParentRow(j)["id"][2]
        /\ log[j].context["media_type"] = ParentRow(j)["media_type"][2]
        /\ log[j].context["media_product_type"] =
              IF "media_product_type" \in DOMAIN ParentRow(j)
              THEN ParentRow(j)["media_product_type"][2]
              ELSE "None"

\* a child stream was synced for the row with id 123 and media_type VIDEO,
\* which has more fields and no media_product_type
C12_Witness ==
    \E j \in MediaChildSyncs :
        /\ ParentRow(j)["id"] = Str("123")
        /\ ParentRow(j)["media_type"] = Str("VIDEO")
        /\ "caption" \in DOMAIN ParentRow(j)
        /\ "media_product_type" \notin DOMAIN ParentRow(j)
        /\ log[j].context = [media_id |-> "123", media_type |-> "VIDEO",
                             media_product_type |-> "None"]

KnownMediaTypes == {"IMAGE", "VIDEO", "CAROUSEL_ALBUM"}

\* the Context being synced is one of an insights stream, and its
\* media_type is not one the stream has metrics for
UnknownMediaType ==
    /\ stream \in InsightsStreams
    /\ "media_type" \in DOMAIN current_context
    /\ current_context.media_type \notin KnownMediaTypes

\* C13: in media_insights and story_insights a Context whose media_type is
\* none of IMAGE, VIDEO, CAROUSEL_ALBUM gets no request: building the
\* parameters raises ValueError for the first page and for a follow-up page
\* alike, and the sync of the Context ends with that error before anything
\* is sent.
C13_UnknownTypeNeverRequested ==
    UnknownMediaType =>
        /\ sent = <<>>
        /\ received = <<>>
        /\ pc \in {"prepare", "failed"}
        /\ pc = "failed" => failure = "ValueError"
        /\ get_url_params(stream, current_context, None).error = "ValueError"
        /\ \A k \in 1..MaxPages, shape \in {1, 2} :
              get_url_params(stream, current_context, Some(TokenQuery(shape, k))).error
                 = "ValueError"

\* the sync of a Context of media type AUDIO ended with the ValueError; a
\* Context before it had been requested, this one was not
C13_Witness ==
    /\ UnknownMediaType
    /\ pc = "failed"
    /\ failure = "ValueError"
    /\ completed = 1
    /\ requests >= 1
    /\ sent = <<>>

\* C14: after a fatal error in the sync of one Context, the Contexts and
\* streams that were still due outside of it are extracted in the same run:
\* as long as such work is left, the run goes on.
C14_OthersStillExtracted ==
    (pc = "failed" /\ Tail(agenda) # <<>>) => ENABLED GraphNext

\* C17: for media_children, media_insights and story_insights the partition
\* a Context reads and writes its bookmark under is the Context projected
\* onto user_id, it names the account the Context descends from, and the
\* Contexts of two accounts never have the same partition.
C17_PartitionIsAccount ==
    \A j \in MediaChildSyncs :
        /\ state_partitioning_keys(log[j].stream) = Some({"user_id"})
        /\ log[j].partition = _get_state_partition_context(log[j].stream, log[j].context)
        /\ \A i \in MediaChildSyncs :
              (log[i].stream = log[j].stream /\ log[i].account # log[j].account) =>
                  log[i].partition # log[j].partition
        /\ DOMAIN log[j].partition = {"user_id"}
        /\ log[j].partition["user_id"] = log[j].account

\* C18: the first request of a child stream for a Context comes after the
\* parent row that produced the Context was yielded, that row is a row of
\* the stream's parent (users for media, stories and the user_insights
\* streams, media for media_children and media_insights, stories for
\* story_insights), and the Contexts of one child stream are synced in the
\* order in which their parent rows were yielded.
C18_ChildAfterParentRowInOrder ==
    \A j \in DOMAIN log :
        (log[j].kind = "sync" /\ log[j].stream # "users") =>
            LET o == log[j].origin
                parent == CASE log[j].stream \in {"media_children", "media_insights"} -> "media"
                            [] log[j].stream = "story_insights" -> "stories"
                            [] OTHER -> "users"
            IN  /\ o \in 1..(j - 1)
                /\ log[o].kind = "row"
                /\ log[o].stream = parent
                /\ log[j].context = get_child_context(parent, log[o].row, log[o].context)
                /\ \A i \in 1..(j - 1) :
                      (log[i].kind = "sync" /\ log[i].stream = log[j].stream) =>
                          log[i].origin < o

\* media_insights was synced for two media rows of one account, each after
\* its row and in the order of the rows
C18_Witness ==
    \E i, j \in DOMAIN log :
        /\ i < j
        /\ log[i].kind = "sync"
        /\ log[j].kind = "sync"
        /\ log[i].stream = "media_insights"
        /\ log[j].stream = "media_insights"
        /\ log[i].account = log[j].account
        /\ log[i].origin < i
        /\ i < log[j].origin
        /\ log[log[i].origin].stream = "media"
        /\ log[log[j].origin].stream = "media"
        /\ log[i].context # log[j].context

\* C19: every row the normalizer of a user_insights stream yields has the
\* primary key id and the replication key end_time, whatever the shape of
\* the value entry it was made from.
C19_RowsHaveIdAndEndTime ==
    (pc = "parsed" /\ stream \in UserInsightsStreams) =>
        \A i \in DOMAIN rows :
            /\ "id" \in DOMAIN rows[i]
            /\ "end_time" \in DOMAIN rows[i]

\* C20: the metric parameter of every insights request, of the first page
\* and of a follow-up one, after any number of earlier requests, is decided
\* by media_type and media_product_type of the Context alone: the six story
\* metrics for IMAGE or VIDEO of product type STORY; engagement,
\* impressions, reach, saved for IMAGE or VIDEO of another or no product
\* type, followed by video_views exactly when the type is VIDEO; the five
\* carousel_album metrics for CAROUSEL_ALBUM of any product type.
C20_MetricsByTypeAndProduct ==
    (stream \in InsightsStreams /\ pc = "waiting") =>
        LET mt == current_context.media_type
            product == current_context.media_product_type
        IN  /\ mt \in {"IMAGE", "VIDEO", "CAROUSEL_ALBUM"}
            /\ params["metric"][1] = "join"
            /\ params["metric"][2] =
                  CASE mt = "CAROUSEL_ALBUM" ->
                          <<"carousel_album_engagement", "carousel_album_impressions",
                            "carousel_album_reach", "carousel_album_saved",
                            "carousel_album_video_views">>
                    [] mt # "CAROUSEL_ALBUM" /\ product = "STORY" ->
                          <<"exits", "impressions", "reach", "replies", "taps_forward",
                            "taps_back">>
                    [] mt = "VIDEO" /\ product # "STORY" ->
                          <<"engagement", "impressions", "reach", "saved", "video_views">>
                    [] mt = "IMAGE" /\ product # "STORY" ->
                          <<"engagement", "impressions", "reach", "saved">>

\* after the requests of a first Context, the second page of an IMAGE
\* without product type is requested with the four metrics of an image
C20_Witness ==
    /\ stream \in InsightsStreams
    /\ pc = "waiting"
    /\ completed = 1
    /\ Len(sent) = 2
    /\ current_context.media_type = "IMAGE"
    /\ current_context.media_product_type = "None"
    /\ params["metric"] = Joined(<<"engagement", "impressions", "reach", "saved">>)

----------------------------------------------------------------------------
(* Runs of one incremental stream over one partition, against an upstream  *)
(* dataset that does not change.  A run builds its first request from the  *)
(* stored bookmark; upstream answers with the rows of the range asked for, *)
(* oldest first, one page after the other; the bookmark advances when a    *)
(* page has been emitted.  The answer to a request for a window of some    *)
(* width names as next page the window that follows it, so that such a run *)
(* reads on to the newest row; a window of no width has no next.           *)

\* most rows upstream holds for the partition, most runs followed
MaxRows == 2
MaxRuns == 2

IncrementalStreams == {s \in Streams : replication_key(s) # None}

\* whether upstream delivers the row of replication value t in a run that
\* starts with the parameters p
InRange(p, t) ==
    LET since == IF "since" \in DOMAIN p /\ p["since"][1] = "datetime"
                 THEN Some(p["since"][2]) ELSE None
        until == IF "until" \in DOMAIN p /\ p["until"][1] = "datetime"
                 THEN Some(p["until"][2]) ELSE None
    IN  /\ since # None => t >= since[1]
        /\ (until # None /\ (since = None \/ until[1] <= since[1])) => t <= until[1]

RECURSIVE Ascending(_)
Ascending(S) ==
    IF S = {} THEN <<>>
    ELSE LET m == CHOOSE x \in S : \A y \in S : x <= y
         IN  <<m>> \o Ascending(S \ {m})

\* advance of the bookmark store: max(current, candidate)
advance(current, candidate) ==
    IF current = None THEN Some(candidate) ELSE Some(Max(current[1], candidate))

RunsInit ==
    /\ pc = "idle"
    /\ Idle
    /\ NoGraph
    /\ contexts = <<>>
    /\ current_context = NoContext
    /\ response = NoResponse
    /\ signpost = ExampleSignpost
    /\ min_since = 0
    /\ max_until = ExampleMaxUntil
    /\ \/ /\ stream \in MediaStreams
          /\ lookback_days \in Lookbacks
          /\ max_time_window = Duration(DefaultWindowDays, 0)
       \/ /\ stream \in UserInsightsStreams
          /\ lookback_days = DefaultLookbackDays
          /\ max_time_window \in {Duration(DefaultWindowDays, 0), Duration(0, HourSeconds)}
    /\ starting_timestamp \in OptTimes
    /\ upstream_rows \in {S \in SUBSET Times : Cardinality(S) <= MaxRows}
    /\ pending = <<>>
    /\ emitted = <<>>
    /\ bookmark_at_start = None
    /\ runs = 0

\* a run starts: the first request is built from the stored bookmark
BeginRun ==
    /\ pc \in {"idle", "done", "aborted"}
    /\ runs < MaxRuns
    /\ LET p == get_url_params(stream, current_context, None).value
       IN  /\ params' = p
           /\ pending' = Ascending({t \in upstream_rows : InRange(p, t)})
    /\ window' = IF stream \in UserInsightsStreams
                 THEN UserInsightsStream_get_url_params(stream, None)[2]
                 ELSE window
    /\ requests' = requests + 1
    /\ emitted' = <<>>
    /\ bookmark_at_start' = starting_timestamp
    /\ pc' = "running"
    /\ UNCHANGED <<stream, config, warnings, pagevars, response, rows, failure,
                   graphvars, upstream_rows, runs>>

\* a page of one row is emitted and the bookmark advanced to it
EmitPage ==
    /\ pc = "running"
    /\ pending # <<>>
    /\ emitted' = Append(emitted, Head(pending))
    /\ pending' = Tail(pending)
    /\ starting_timestamp' = advance(starting_timestamp, Head(pending))
    /\ UNCHANGED <<pc, stream, signpost, min_since, max_until, max_time_window,
                   lookback_days, window, params, requests, warnings, pagevars,
                   response, rows, failure, graphvars, upstream_rows,
                   bookmark_at_start, runs>>

\* a request of the run fails for good: the run ends where it is
AbortRun ==
    /\ pc = "running"
    /\ pending # <<>>
    /\ pending' = <<>>
    /\ failure' = "FatalAPIError"
    /\ runs' = runs + 1
    /\ pc' = "aborted"
    /\ UNCHANGED <<stream, config, window, params, requests, warnings, pagevars,
                   response, rows, graphvars, upstream_rows, emitted, bookmark_at_start>>

\* upstream has no further page: the run is complete
EndRun ==
    /\ pc = "running"
    /\ pending = <<>>
    /\ runs' = runs + 1
    /\ pc' = "done"
    /\ UNCHANGED <<stream, config, window, params, requests, warnings, pagevars,
                   response, rows, failure, graphvars, upstream_rows, pending, emitted,
                   bookmark_at_start>>

RunsNext == BeginRun \/ EmitPage \/ AbortRun \/ EndRun

SpecRuns == RunsInit /\ [][RunsNext]_vars

\* the replication values the current run has emitted
Emitted == {emitted[i] : i \in DOMAIN emitted}

\* C15: over pages and runs the committed bookmark never falls below the
\* value the run started from, and a completed run that started from a
\* committed bookmark has emitted every upstream row whose replication
\* value is greater than that bookmark.
C15_MonotoneWithoutSkips ==
    /\ (bookmark_at_start # None /\ pc \in {"running", "done", "aborted"}) =>
          /\ starting_timestamp # None
          /\ starting_timestamp[1] >= bookmark_at_start[1]
    /\ (pc = "done" /\ bookmark_at_start # None) =>
          \A t \in upstream_rows : t > bookmark_at_start[1] => t \in Emitted

\* C16: a completed run that started from the bookmark an earlier run
\* committed has emitted exactly the upstream rows whose replication value
\* is strictly greater than that bookmark, each once.
C16_OnlyRowsAboveBookmark ==
    (pc = "done" /\ runs >= 2 /\ bookmark_at_start # None) =>
        /\ Emitted = {t \in upstream_rows : t > bookmark_at_start[1]}
        /\ Len(emitted) = Cardinality(Emitted)

\* C21: the since parameter of every request of media and media_children,
\* on the first page and on every page reached through a token, is the
\* starting timestamp minus media_insights_lookback_days when there is a
\* starting timestamp and None when there is none, whatever since the
\* token itself carries.
C21_SinceFromBookmarkOnEveryPage ==
    (stream \in MediaStreams /\ pc = "waiting") =>
        /\ "since" \in DOMAIN params
        /\ IF starting_timestamp = None
           THEN params["since"] = PyNone
           ELSE /\ params["since"][1] = "datetime"
                /\ params["since"][2] =
                      starting_timestamp[1] - lookback_days * (24 * 60 * 60)

\* a follow-up page of media was requested with a token that carries a since
\* of its own, and the request has the since computed from the bookmark
C21_Witness ==
    /\ stream \in MediaStreams
    /\ pc = "waiting"
    /\ Len(sent) >= 2
    /\ Last(sent) # None
    /\ "since" \in DOMAIN parse_qs(Last(sent)[1])
    /\ starting_timestamp = Some(ExampleCursor)
    /\ lookback_days = 60
    /\ params["since"] = DateTime(ExampleCursor - 60 * 86400)

====
